---- MODULE Spec2Model ----
(***************************************************************************)
(* A model of numeric::fixed_point<Rep, Rad>                               *)
(* (cpp/include/cudf/fixed_point/fixed_point.hpp).                         *)
(*                                                                         *)
(* The representation types int32_t, int64_t and __int128_t are modelled   *)
(* at their real widths.  TLC's own integers are 32 bits wide, so a C++    *)
(* integer is a record [neg, mag]: a sign and a magnitude, the magnitude a *)
(* sequence of limbs in base 10^4, least significant limb first, without a *)
(* most significant zero limb (<<>> is zero).                              *)
(***************************************************************************)
EXTENDS Integers, Sequences, FiniteSets, TLC

LimbBase == 10^4

---------------------------------------------------------------------------
(* Magnitudes.                                                             *)

RECURSIVE MagNorm(_)
MagNorm(m) ==
  IF m = <<>> THEN <<>>
  ELSE IF m[Len(m)] = 0 THEN MagNorm(SubSeq(m, 1, Len(m) - 1))
  ELSE m

RECURSIVE MagOfNat(_)
MagOfNat(n) ==
  IF n = 0 THEN <<>> ELSE <<n % LimbBase>> \o MagOfNat(n \div LimbBase)

Limb(a, i) == IF i <= Len(a) THEN a[i] ELSE 0

RECURSIVE MagCmpFrom(_, _, _)
MagCmpFrom(a, b, i) ==
  IF i = 0 THEN 0
  ELSE IF a[i] # b[i] THEN (IF a[i] < b[i] THEN -1 ELSE 1)
  ELSE MagCmpFrom(a, b, i - 1)

MagCmp(a, b) ==
  IF Len(a) # Len(b) THEN (IF Len(a) < Len(b) THEN -1 ELSE 1)
  ELSE MagCmpFrom(a, b, Len(a))

RECURSIVE MagAddFrom(_, _, _, _)
MagAddFrom(a, b, i, carry) ==
  IF i > Len(a) /\ i > Len(b)
  THEN (IF carry = 0 THEN <<>> ELSE <<carry>>)
  ELSE LET t == Limb(a, i) + Limb(b, i) + carry
       IN  <<t % LimbBase>> \o MagAddFrom(a, b, i + 1, t \div LimbBase)

MagAdd(a, b) == MagAddFrom(a, b, 1, 0)

RECURSIVE MagSubFrom(_, _, _, _)
MagSubFrom(a, b, i, borrow) ==
  IF i > Len(a) THEN <<>>
  ELSE LET t == a[i] - Limb(b, i) - borrow
       IN  IF t < 0 THEN <<t + LimbBase>> \o MagSubFrom(a, b, i + 1, 1)
           ELSE <<t>> \o MagSubFrom(a, b, i + 1, 0)

\* a - b for a >= b
MagSub(a, b) == MagNorm(MagSubFrom(a, b, 1, 0))

RECURSIVE MagMulLimbFrom(_, _, _, _)
MagMulLimbFrom(a, d, i, carry) ==
  IF i > Len(a) THEN (IF carry = 0 THEN <<>> ELSE <<carry>>)
  ELSE LET t == a[i] * d + carry
       IN  <<t % LimbBase>> \o MagMulLimbFrom(a, d, i + 1, t \div LimbBase)

\* a * d for one limb d
MagMulLimb(a, d) == IF d = 0 THEN <<>> ELSE MagMulLimbFrom(a, d, 1, 0)

MagShift(a) == IF a = <<>> THEN <<>> ELSE <<0>> \o a

\* low + high * LimbBase
MagMulStep(low, high) ==
  IF high = <<>> THEN low ELSE MagAdd(low, <<0>> \o high)

RECURSIVE MagMul(_, _)
MagMul(a, b) ==
  IF a = <<>> \/ b = <<>> THEN <<>>
  ELSE MagMulStep(MagMulLimb(a, b[1]), MagMul(a, Tail(b)))

\* the largest q in lo..hi with b * q <= r, given b * lo <= r
RECURSIVE QuotLimb(_, _, _, _)
QuotLimb(r, b, lo, hi) ==
  IF lo = hi THEN lo
  ELSE IF MagCmp(MagMulLimb(b, (lo + hi + 1) \div 2), r) <= 0
       THEN QuotLimb(r, b, (lo + hi + 1) \div 2, hi)
       ELSE QuotLimb(r, b, lo, ((lo + hi + 1) \div 2) - 1)

\* one step of long division: r is the running remainder with the next limb
\* brought down, q its quotient limb, upq the quotient limbs so far
DivStep(r, b, q, upq) == << MagNorm(<<q>> \o upq), MagSub(r, MagMulLimb(b, q)) >>
\* bounds of the quotient limb of r by b, for r < b * LimbBase, from the two
\* leading limbs of r and the leading limb of b
LeadingOf(r, b) == Limb(r, Len(b) + 1) * LimbBase + Limb(r, Len(b))
QuotLow(r, b)   == LeadingOf(r, b) \div (b[Len(b)] + 1)
QuotHigh(r, b)  ==
  IF LeadingOf(r, b) \div b[Len(b)] < LimbBase
  THEN LeadingOf(r, b) \div b[Len(b)] ELSE LimbBase - 1

DivDigit(r, b, upq) ==
  DivStep(r, b, QuotLimb(r, b, QuotLow(r, b), QuotHigh(r, b)), upq)
DivNext(limb, b, up) ==
  IF up[2] = <<>> /\ limb = 0 THEN << MagShift(up[1]), <<>> >>
  ELSE DivDigit(MagNorm(<<limb>> \o up[2]), b, up[1])

\* long division of the limbs i..Len(a) of a by b # 0: <<quotient, remainder>>;
\* fewer limbs than b has are a remainder
RECURSIVE MagDivModFrom(_, _, _)
MagDivModFrom(a, b, i) ==
  IF Len(a) - i + 1 < Len(b) THEN << <<>>, MagNorm(SubSeq(a, i, Len(a))) >>
  ELSE DivNext(a[i], b, MagDivModFrom(a, b, i + 1))

MagDivMod(a, b) ==
  IF MagCmp(a, b) < 0 THEN << <<>>, a >> ELSE MagDivModFrom(a, b, 1)

---------------------------------------------------------------------------
(* Mathematical integers of any size.                                      *)

MkInt(neg, mag) == [neg |-> neg /\ mag # <<>>, mag |-> mag]

\* the integer n, for -2^31 < n < 2^31
Num(n) == IF n < 0 THEN MkInt(TRUE, MagOfNat(-n)) ELSE MkInt(FALSE, MagOfNat(n))

Zero == Num(0)
One  == Num(1)

IsZero(a) == a.mag = <<>>
IsNeg(a)  == a.neg

Neg(a) == MkInt(~a.neg, a.mag)
Abs(a) == MkInt(FALSE, a.mag)

\* -1, 0 or 1 as a < b, a = b or a > b
Cmp(a, b) ==
  IF a.neg # b.neg THEN (IF a.neg THEN -1 ELSE 1)
  ELSE IF a.neg THEN MagCmp(b.mag, a.mag)
  ELSE MagCmp(a.mag, b.mag)

Lt(a, b) == Cmp(a, b) < 0
Le(a, b) == Cmp(a, b) <= 0
Gt(a, b) == Cmp(a, b) > 0
Ge(a, b) == Cmp(a, b) >= 0

Add(a, b) ==
  IF a.neg = b.neg THEN MkInt(a.neg, MagAdd(a.mag, b.mag))
  ELSE IF MagCmp(a.mag, b.mag) >= 0 THEN MkInt(a.neg, MagSub(a.mag, b.mag))
  ELSE MkInt(b.neg, MagSub(b.mag, a.mag))

Sub(a, b) == Add(a, Neg(b))

Mul(a, b) == MkInt(a.neg # b.neg, MagMul(a.mag, b.mag))

\* a / b and a % b of C++: the quotient truncated toward zero, and the
\* remainder with the sign of a (b # 0)
TruncDiv(a, b) == MkInt(a.neg # b.neg, MagDivMod(a.mag, b.mag)[1])
TruncRem(a, b) == MkInt(a.neg, MagDivMod(a.mag, b.mag)[2])

\* the quotient rounded toward minus infinity (b > 0), from the <<quotient,
\* remainder>> qr of the magnitudes
FloorOf(neg, qr) ==
  IF neg /\ qr[2] # <<>> THEN MkInt(TRUE, MagAdd(qr[1], <<1>>))
  ELSE MkInt(neg, qr[1])
FloorDiv(a, b) == FloorOf(a.neg, MagDivMod(a.mag, b.mag))

Square(a) == Mul(a, a)

\* b^e for e >= 0
RECURSIVE Pow(_, _)
Pow(b, e) ==
  IF e = 0 THEN One
  ELSE IF e % 2 = 0 THEN Square(Pow(b, e \div 2))
  ELSE Mul(b, Pow(b, e - 1))

Pow2(e) == Pow(Num(2), e)

\* 10^e for 0 <= e < 44: the limbs are four decimal digits each
ZeroLimbs == <<0, 0, 0, 0, 0, 0, 0, 0, 0, 0>>
Pow10(e)  == MkInt(FALSE, SubSeq(ZeroLimbs, 1, e \div 4) \o <<10^(e % 4)>>)

---------------------------------------------------------------------------
(* The C++ integer types: a width in bits and a signedness.                *)

int32_t  == [bits |-> 32, signed |-> TRUE]
int64_t  == [bits |-> 64, signed |-> TRUE]
int128_t == [bits |-> 128, signed |-> TRUE]

\* the types of the literals of the kernels
int                == int32_t
long_long          == int64_t
unsigned_long_long == [bits |-> 64, signed |-> FALSE]

\* is_supported_representation_type: int32_t, int64_t, __int128_t
SupportedRep == {int32_t, int64_t, int128_t}

\* Radix::BASE_2 and Radix::BASE_10
Radix == {2, 10}

\* the magnitudes 2^bits and 2^(bits - 1) of the three widths, in limbs:
\* 2^32 = 42 9496 7296, 2^64 = 1844 6744 0737 0955 1616,
\* 2^128 = 340 2823 6692 0938 4634 6337 4607 4317 6821 1456,
\* 2^31 = 21 4748 3648, 2^63 = 922 3372 0368 5477 5808,
\* 2^127 = 170 1411 8346 0469 2317 3168 7303 7158 8410 5728
Modulus32      == <<7296, 9496, 42>>
Modulus64      == <<1616, 955, 737, 6744, 1844>>
Modulus128     == <<1456, 6821, 4317, 4607, 6337, 4634, 938, 6692, 2823, 340>>
HalfModulus32  == <<3648, 4748, 21>>
HalfModulus64  == <<5808, 5477, 368, 3372, 922>>
HalfModulus128 == <<5728, 8410, 7158, 7303, 3168, 2317, 469, 8346, 1411, 170>>

Modulus(T) ==
  IF T.bits = 32 THEN Modulus32
  ELSE IF T.bits = 64 THEN Modulus64 ELSE Modulus128

HalfModulus(T) ==
  IF T.bits = 32 THEN HalfModulus32
  ELSE IF T.bits = 64 THEN HalfModulus64 ELSE HalfModulus128

numeric_limits_min(T) == MkInt(TRUE, HalfModulus(T))
numeric_limits_max(T) == MkInt(FALSE, MagSub(HalfModulus(T), <<1>>))

InRange(T, v) == Le(numeric_limits_min(T), v) /\ Le(v, numeric_limits_max(T))

\* the residue in 0..M-1 of an integer of sign neg whose magnitude has the
\* remainder r modulo M
Residue(neg, r, M) == IF neg /\ r # <<>> THEN MagSub(M, r) ELSE r

\* the residue u as a value of a type of modulus M = 2^bits and H = M / 2:
\* a signed type holds the residues from H on as negative values
AsType(signed, u, M, H) ==
  IF signed /\ MagCmp(u, H) >= 0 THEN MkInt(TRUE, MagSub(M, u))
  ELSE MkInt(FALSE, u)

ConvertWith(T, v, M, H) ==
  AsType(T.signed, Residue(v.neg, MagDivMod(v.mag, M)[2], M), M, H)

\* the conversion of the integer v to the type T, and what an arithmetic
\* result v of type T wraps to: v modulo 2^bits (two's complement, which is
\* what the release build computes on overflow)
Convert(T, v) == ConvertWith(T, v, Modulus(T), HalfModulus(T))

\* the usual arithmetic conversions of two types of rank int or more
common_type(T, U) ==
  IF T.signed = U.signed THEN (IF T.bits >= U.bits THEN T ELSE U)
  ELSE IF T.signed THEN (IF U.bits >= T.bits THEN U ELSE T)
  ELSE (IF T.bits >= U.bits THEN T ELSE U)

\* the largest exponent of each kernel's switch
max_exp10_32bit  == 9
max_exp10_64bit  == 19
max_exp10_128bit == 38

\* the literal 10^k of each kernel: int up to 10^9, long long up to 10^18;
\* then 10^19 is unsigned long long in the 64-bit kernels and
\* large_power_of_10<k>(), an __int128_t, in the 128-bit ones
literal_32bit(k) == [value |-> Pow10(k), type |-> int]
literal_64bit(k) ==
  [value |-> Pow10(k),
   type  |-> IF k <= 9 THEN int ELSE IF k <= 18 THEN long_long
             ELSE unsigned_long_long]
literal_128bit(k) ==
  [value |-> Pow10(k),
   type  |-> IF k <= 9 THEN int ELSE IF k <= 18 THEN long_long ELSE int128_t]

\* return value / literal, for T value: both operands are converted to their
\* common type, and the quotient to T
Dividing(T, value, literal) ==
  Convert(T, TruncDiv(Convert(common_type(T, literal.type), value),
                      literal.value))

\* return value * literal, likewise
Multiplying(T, value, literal) ==
  Convert(T, Mul(Convert(common_type(T, literal.type), value), literal.value))

---------------------------------------------------------------------------
(* detail: the power-of-10 kernels.  Each is a switch on exp10 whose arm k *)
(* divides or multiplies value by the literal 10^k, and whose default      *)
(* returns 0; T is the type of value.                                      *)

divide_power10_32bit(T, value, exp10) ==
  IF exp10 = 0 THEN value
  ELSE IF exp10 \in 1..max_exp10_32bit
       THEN Dividing(T, value, literal_32bit(exp10))
       ELSE Zero

divide_power10_64bit(T, value, exp10) ==
  IF exp10 = 0 THEN value
  ELSE IF exp10 \in 1..max_exp10_64bit
       THEN Dividing(T, value, literal_64bit(exp10))
       ELSE Zero

divide_power10_128bit(T, value, exp10) ==
  IF exp10 = 0 THEN value
  ELSE IF exp10 \in 1..max_exp10_128bit
       THEN Dividing(T, value, literal_128bit(exp10))
       ELSE Zero

\* a kernel whose default returns value as it is
multiply_power10_32bit_default_value(T, value, exp10) ==
  IF exp10 \in 1..max_exp10_32bit
  THEN Multiplying(T, value, literal_32bit(exp10))
  ELSE value

multiply_power10_32bit(T, value, exp10) ==
  IF exp10 = 0 THEN value
  ELSE IF exp10 \in 1..max_exp10_32bit
       THEN Multiplying(T, value, literal_32bit(exp10))
       ELSE Zero

multiply_power10_64bit(T, value, exp10) ==
  IF exp10 = 0 THEN value
  ELSE IF exp10 \in 1..max_exp10_64bit
       THEN Multiplying(T, value, literal_64bit(exp10))
       ELSE Zero

multiply_power10_128bit(T, value, exp10) ==
  IF exp10 = 0 THEN value
  ELSE IF exp10 \in 1..max_exp10_128bit
       THEN Multiplying(T, value, literal_128bit(exp10))
       ELSE Zero

\* the kernel is chosen by sizeof(Rep), not by the type T of value
\* a dispatch that takes the 128-bit kernel for every Rep
multiply_power10_widest(Rep, T, value, exp10) ==
  multiply_power10_128bit(T, value, exp10)

multiply_power10(Rep, T, value, exp10) ==
  IF Rep.bits <= 32 THEN multiply_power10_32bit(T, value, exp10)
  ELSE IF Rep.bits <= 64 THEN multiply_power10_64bit(T, value, exp10)
  ELSE multiply_power10_128bit(T, value, exp10)

divide_power10(Rep, T, value, exp10) ==
  IF Rep.bits <= 32 THEN divide_power10_32bit(T, value, exp10)
  ELSE IF Rep.bits <= 64 THEN divide_power10_64bit(T, value, exp10)
  ELSE divide_power10_128bit(T, value, exp10)

---------------------------------------------------------------------------
(* detail::ipow<Rep, Base>(exponent): exponentiation by squaring.  The     *)
(* state of its loop is the exponent, extra and square; each product is    *)
(* computed in Rep.                                                        *)

\* a loop body that squares before it multiplies extra
ipow_while_square_first(Rep, st) ==
  [st EXCEPT !.square = Convert(Rep, Mul(st.square, st.square)),
             !.extra = IF st.exponent % 2 = 1
                       THEN Convert(Rep, Mul(st.extra,
                                             Convert(Rep, Mul(st.square, st.square))))
                       ELSE st.extra,
             !.exponent = st.exponent \div 2,
             !.iterations = st.iterations + 1]

\* if (exponent & 1) { extra *= square; }  exponent >>= 1;  square *= square;
ipow_while(Rep, st) ==
  [st EXCEPT !.extra = IF st.exponent % 2 = 1
                       THEN Convert(Rep, Mul(st.extra, st.square))
                       ELSE st.extra,
             !.exponent = st.exponent \div 2,
             !.square = Convert(Rep, Mul(st.square, st.square)),
             !.iterations = st.iterations + 1]

---------------------------------------------------------------------------
(* detail: shifting.  val is integral, so base 10 goes to the kernels and  *)
(* base 2 to the shift operators; a count of T's width or more is          *)
(* undefined there, and ShiftDefined states that no such count arises.     *)

\* val >> n of a signed val: the arithmetic shift (0 <= n < T.bits)
ShiftRight(T, val, n) == FloorDiv(val, Pow2(n))

\* val << n of a signed val (0 <= n < T.bits)
ShiftLeft(T, val, n) == Convert(T, Mul(val, Pow2(n)))

\* a right shift by one digit less than asked for
right_shift_short(Rep, Rad, T, val, scale) ==
  IF Rad = 10 THEN divide_power10(Rep, T, val, scale - 1)
  ELSE ShiftRight(T, val, scale - 1)

\* a right shift that, in base 2, rounds toward zero
right_shift_truncating(Rep, Rad, T, val, scale) ==
  IF Rad = 10 THEN divide_power10(Rep, T, val, scale)
  ELSE TruncDiv(val, Pow2(scale))

right_shift(Rep, Rad, T, val, scale) ==
  IF Rad = 10 THEN divide_power10(Rep, T, val, scale)
  ELSE ShiftRight(T, val, scale)

\* a left shift that leaves val as it is
left_shift_none(Rep, Rad, T, val, scale) == val

left_shift(Rep, Rad, T, val, scale) ==
  IF Rad = 10 THEN multiply_power10(Rep, T, val, -scale)
  ELSE ShiftLeft(T, val, -scale)

shift(Rep, Rad, T, val, scale) ==
  IF scale = 0 THEN val
  ELSE IF scale > 0 THEN right_shift(Rep, Rad, T, val, scale)
  ELSE left_shift(Rep, Rad, T, val, scale)

ScaleAbs(scale) == IF scale < 0 THEN -scale ELSE scale

ShiftDefined(Rad, T, scale) == Rad = 2 => ScaleAbs(scale) < T.bits

---------------------------------------------------------------------------
(* scaled_integer<Rep> and fixed_point<Rep, Rad>: both are a value of type *)
(* Rep and a scale.                                                        *)

scaled_integer(v, s) == [value |-> v, scale |-> s]

\* a construction that stores value as it is given
fixed_point_unshifted(Rep, Rad, value, scale) ==
  [value |-> Convert(Rep, value), scale |-> scale]

\* fixed_point(T const& value, scale_type const& scale): the shifting
\* constructor; value is cast to Rep first
fixed_point(Rep, Rad, value, scale) ==
  [value |-> shift(Rep, Rad, Rep, Convert(Rep, value), scale), scale |-> scale]

\* a construction that keeps the coefficient and drops the scale
fixed_point_raw_unscaled(s) == [value |-> s.value, scale |-> 0]

\* fixed_point(scaled_integer<Rep> s): no shifting
fixed_point_raw(s) == [value |-> s.value, scale |-> s.scale]

\* fixed_point(): value and scale of zero
fixed_point_default == [value |-> Zero, scale |-> 0]

\* explicit operator U(): the coefficient is cast to the common type of U and
\* Rep, shifted by -scale with the kernels of Rep, and cast to U
operator_U(Rep, Rad, U, this) ==
  Convert(U, shift(Rep, Rad, common_type(U, Rep),
                   Convert(common_type(U, Rep), this.value), -this.scale))

\* operator scaled_integer<Rep>()
to_scaled_integer(this) == scaled_integer(this.value, this.scale)

rescaled(Rep, Rad, this, scale) ==
  IF scale = this.scale THEN this
  ELSE LET value == shift(Rep, Rad, Rep, this.value, scale - this.scale)
       IN  fixed_point_raw(scaled_integer(value, scale))

std_min(p, q) == IF q < p THEN q ELSE p

\* an addition of the coefficients as they are stored
operator_plus_unscaled(Rep, Rad, lhs, rhs) ==
  fixed_point_raw(scaled_integer(Convert(Rep, Add(lhs.value, rhs.value)),
                                 std_min(lhs.scale, rhs.scale)))

operator_plus(Rep, Rad, lhs, rhs) ==
  LET scale == std_min(lhs.scale, rhs.scale)
      sum   == Convert(Rep, Add(rescaled(Rep, Rad, lhs, scale).value,
                            rescaled(Rep, Rad, rhs, scale).value))
  IN  fixed_point_raw(scaled_integer(sum, scale))

\* a subtraction that gives a difference of zero the scale 0
operator_minus_normalized(Rep, Rad, lhs, rhs) ==
  LET scale == std_min(lhs.scale, rhs.scale)
      diff  == Convert(Rep, Sub(rescaled(Rep, Rad, lhs, scale).value,
                            rescaled(Rep, Rad, rhs, scale).value))
  IN  fixed_point_raw(scaled_integer(diff, IF IsZero(diff) THEN 0 ELSE scale))

operator_minus(Rep, Rad, lhs, rhs) ==
  LET scale == std_min(lhs.scale, rhs.scale)
      diff  == Convert(Rep, Sub(rescaled(Rep, Rad, lhs, scale).value,
                            rescaled(Rep, Rad, rhs, scale).value))
  IN  fixed_point_raw(scaled_integer(diff, scale))

operator_multiplies(Rep, Rad, lhs, rhs) ==
  fixed_point_raw(scaled_integer(Convert(Rep, Mul(lhs.value, rhs.value)),
                                 lhs.scale + rhs.scale))

\* a division that rounds toward minus infinity
operator_divides_floor(Rep, Rad, lhs, rhs) ==
  fixed_point_raw(scaled_integer(
    FloorOf(lhs.value.neg # rhs.value.neg, MagDivMod(lhs.value.mag, rhs.value.mag)),
    lhs.scale - rhs.scale))

\* rhs.value # 0, and not numeric_limits::min() / -1
operator_divides(Rep, Rad, lhs, rhs) ==
  fixed_point_raw(scaled_integer(TruncDiv(lhs.value, rhs.value),
                                 lhs.scale - rhs.scale))

\* an increment of the stored coefficient by 1
operator_increment_coefficient(Rep, Rad, this) ==
  operator_plus(Rep, Rad, this, fixed_point_raw(scaled_integer(One, this.scale)))

\* operator++: *this = *this + fixed_point<Rep, Rad>{1, scale_type{_scale}}
operator_increment(Rep, Rad, this) ==
  operator_plus(Rep, Rad, this, fixed_point(Rep, Rad, One, this.scale))

\* a remainder that takes the sign of the divisor
operator_modulo_floored(Rep, Rad, lhs, rhs) ==
  LET scale     == std_min(lhs.scale, rhs.scale)
      remainder == TruncRem(rescaled(Rep, Rad, lhs, scale).value,
                            rescaled(Rep, Rad, rhs, scale).value)
      divisor   == rescaled(Rep, Rad, rhs, scale).value
  IN  fixed_point_raw(scaled_integer(
        IF ~IsZero(remainder) /\ remainder.neg # divisor.neg
        THEN Add(remainder, divisor) ELSE remainder,
        scale))

\* the rescaled rhs value # 0
operator_modulo(Rep, Rad, lhs, rhs) ==
  LET scale     == std_min(lhs.scale, rhs.scale)
      remainder == TruncRem(rescaled(Rep, Rad, lhs, scale).value,
                            rescaled(Rep, Rad, rhs, scale).value)
  IN  fixed_point_raw(scaled_integer(remainder, scale))

\* equality of storage: the same coefficient and the same scale
operator_eq_stored(Rep, Rad, lhs, rhs) ==
  lhs.value = rhs.value /\ lhs.scale = rhs.scale

operator_eq(Rep, Rad, lhs, rhs) ==
  LET scale == std_min(lhs.scale, rhs.scale)
  IN  rescaled(Rep, Rad, lhs, scale).value = rescaled(Rep, Rad, rhs, scale).value

operator_ne(Rep, Rad, lhs, rhs) ==
  LET scale == std_min(lhs.scale, rhs.scale)
  IN  rescaled(Rep, Rad, lhs, scale).value # rescaled(Rep, Rad, rhs, scale).value

\* a less-or-equal that is a strict less
operator_le_strict(Rep, Rad, lhs, rhs) ==
  LET scale == std_min(lhs.scale, rhs.scale)
  IN  Lt(rescaled(Rep, Rad, lhs, scale).value, rescaled(Rep, Rad, rhs, scale).value)

operator_le(Rep, Rad, lhs, rhs) ==
  LET scale == std_min(lhs.scale, rhs.scale)
  IN  Le(rescaled(Rep, Rad, lhs, scale).value, rescaled(Rep, Rad, rhs, scale).value)

operator_ge(Rep, Rad, lhs, rhs) ==
  LET scale == std_min(lhs.scale, rhs.scale)
  IN  Ge(rescaled(Rep, Rad, lhs, scale).value, rescaled(Rep, Rad, rhs, scale).value)

operator_lt(Rep, Rad, lhs, rhs) ==
  LET scale == std_min(lhs.scale, rhs.scale)
  IN  Lt(rescaled(Rep, Rad, lhs, scale).value, rescaled(Rep, Rad, rhs, scale).value)

operator_gt(Rep, Rad, lhs, rhs) ==
  LET scale == std_min(lhs.scale, rhs.scale)
  IN  Gt(rescaled(Rep, Rad, lhs, scale).value, rescaled(Rep, Rad, rhs, scale).value)

---------------------------------------------------------------------------
(* operator std::string.  A std::string is a sequence of characters, each  *)
(* a string of length one.  detail::abs, detail::exp10 and                 *)
(* detail::to_string are those of cudf/fixed_point/temporary.hpp.          *)

Digits == <<"0", "1", "2", "3", "4", "5", "6", "7", "8", "9">>

\* the decimal digits of n, most significant first; none for 0
RECURSIVE NatDigits(_)
NatDigits(n) ==
  IF n = 0 THEN <<>> ELSE NatDigits(n \div 10) \o <<Digits[(n % 10) + 1]>>

\* the four decimal digits of a limb
LimbDigits(n) ==
  <<Digits[(n \div 1000) + 1], Digits[((n \div 100) % 10) + 1],
    Digits[((n \div 10) % 10) + 1], Digits[(n % 10) + 1]>>

\* the digits of the limbs 1..i of a magnitude, each limb in four digits
RECURSIVE LowDigits(_, _)
LowDigits(m, i) ==
  IF i = 0 THEN <<>> ELSE LimbDigits(m[i]) \o LowDigits(m, i - 1)

\* detail::to_string(value): "-" for a negative value, then the decimal
\* digits of its magnitude, "0" for zero
detail_to_string(value) ==
  IF IsZero(value) THEN <<"0">>
  ELSE (IF IsNeg(value) THEN <<"-">> ELSE <<>>)
         \o NatDigits(value.mag[Len(value.mag)])
         \o LowDigits(value.mag, Len(value.mag) - 1)

\* detail::abs(value): value >= 0 ? value : -value, in the type T of value
detail_abs(T, value) == IF Ge(value, Zero) THEN value ELSE Convert(T, Neg(value))

\* detail::exp10<BaseType>(exponent): 1 multiplied by 10 exponent times, in
\* BaseType
detail_exp10(BaseType, exponent) ==
  IF exponent <= 0 THEN One ELSE Convert(BaseType, Pow10(exponent))

std_max(p, q) == IF p < q THEN q ELSE p

\* std::string(count, ch)
std_string(count, ch) == [i \in 1..count |-> ch]

\* a conversion that leaves out the zeros in front of the fractional digits
operator_string_unpadded(Rep, this) ==
  IF this.scale < 0
  THEN (IF IsNeg(this.value) THEN <<"-">> ELSE <<>>)
         \o detail_to_string(TruncDiv(detail_abs(Rep, this.value),
                                      detail_exp10(Rep, -this.scale)))
         \o <<".">>
         \o detail_to_string(TruncRem(detail_abs(Rep, this.value),
                                      detail_exp10(Rep, -this.scale)))
  ELSE detail_to_string(this.value) \o std_string(this.scale, "0")

\* a conversion that writes a zero coefficient as "0" whatever the scale
operator_string_zero(Rep, this) ==
  IF this.scale >= 0 /\ IsZero(this.value) THEN <<"0">>
  ELSE operator_string_unpadded(Rep, this)

\* explicit operator std::string() const
operator_string(Rep, this) ==
  IF this.scale < 0
  THEN LET av        == detail_abs(Rep, this.value)
           n         == detail_exp10(Rep, -this.scale)
           f         == TruncRem(av, n)
           num_zeros == std_max(0, (-this.scale) - Len(detail_to_string(f)))
           zeros     == std_string(num_zeros, "0")
           sign      == IF IsNeg(this.value) THEN <<"-">> ELSE <<>>
       IN  sign \o detail_to_string(TruncDiv(av, n)) \o <<".">> \o zeros
             \o detail_to_string(TruncRem(av, n))
  ELSE LET zeros == std_string(this.scale, "0")
       IN  detail_to_string(this.value) \o zeros

---------------------------------------------------------------------------
(* The overflow predicates.  Rep is the type whose limits are taken and T   *)
(* the type of lhs and rhs; each arithmetic expression is evaluated in the *)
(* common type of its operands and wraps there.                            *)

\* an addition_overflow that takes the branch of a positive rhs for every rhs
addition_overflow_upper(Rep, T, lhs, rhs) ==
  Gt(lhs, Convert(common_type(Rep, T), Sub(numeric_limits_max(Rep), rhs)))

addition_overflow(Rep, T, lhs, rhs) ==
  IF Gt(rhs, Zero)
  THEN Gt(lhs, Convert(common_type(Rep, T), Sub(numeric_limits_max(Rep), rhs)))
  ELSE Lt(lhs, Convert(common_type(Rep, T), Sub(numeric_limits_min(Rep), rhs)))

subtraction_overflow(Rep, T, lhs, rhs) ==
  IF Gt(rhs, Zero)
  THEN Lt(lhs, Convert(common_type(Rep, T), Add(numeric_limits_min(Rep), rhs)))
  ELSE Gt(lhs, Convert(common_type(Rep, T), Add(numeric_limits_max(Rep), rhs)))

division_overflow(Rep, T, lhs, rhs) ==
  lhs = numeric_limits_min(Rep) /\ rhs = Num(-1)

\* a multiplication_overflow without the last return: false for rhs of -1
multiplication_overflow_no_minus_one(Rep, T, lhs, rhs) ==
  IF Gt(rhs, Zero)
  THEN \/ Gt(lhs, TruncDiv(numeric_limits_max(Rep), rhs))
       \/ Lt(lhs, TruncDiv(numeric_limits_min(Rep), rhs))
  ELSE IF Lt(rhs, Num(-1))
  THEN \/ Gt(lhs, TruncDiv(numeric_limits_min(Rep), rhs))
       \/ Lt(lhs, TruncDiv(numeric_limits_max(Rep), rhs))
  ELSE FALSE

\* min / rhs and max / rhs are evaluated for rhs > 0 and rhs < -1 alone
multiplication_overflow(Rep, T, lhs, rhs) ==
  IF Gt(rhs, Zero)
  THEN \/ Gt(lhs, Convert(common_type(Rep, T), TruncDiv(numeric_limits_max(Rep), rhs)))
       \/ Lt(lhs, Convert(common_type(Rep, T), TruncDiv(numeric_limits_min(Rep), rhs)))
  ELSE IF Lt(rhs, Num(-1))
  THEN \/ Gt(lhs, Convert(common_type(Rep, T), TruncDiv(numeric_limits_min(Rep), rhs)))
       \/ Lt(lhs, Convert(common_type(Rep, T), TruncDiv(numeric_limits_max(Rep), rhs)))
  ELSE rhs = Num(-1) /\ lhs = numeric_limits_min(Rep)

\* The arithmetic an overflow predicate evaluates on the branch it takes:
\* each operation with its operands, before any wrapping.  The right operand
\* of || is evaluated when the left one is false.

\* an addition_overflow that evaluates both operands of ?:
addition_overflow_evaluated_both(Rep, T, lhs, rhs) ==
  {[operator |-> "-", left |-> numeric_limits_max(Rep), right |-> rhs],
   [operator |-> "-", left |-> numeric_limits_min(Rep), right |-> rhs]}

addition_overflow_evaluated(Rep, T, lhs, rhs) ==
  IF Gt(rhs, Zero)
  THEN {[operator |-> "-", left |-> numeric_limits_max(Rep), right |-> rhs]}
  ELSE {[operator |-> "-", left |-> numeric_limits_min(Rep), right |-> rhs]}

subtraction_overflow_evaluated(Rep, T, lhs, rhs) ==
  IF Gt(rhs, Zero)
  THEN {[operator |-> "+", left |-> numeric_limits_min(Rep), right |-> rhs]}
  ELSE {[operator |-> "+", left |-> numeric_limits_max(Rep), right |-> rhs]}

multiplication_overflow_evaluated(Rep, T, lhs, rhs) ==
  IF Gt(rhs, Zero)
  THEN {[operator |-> "/", left |-> numeric_limits_max(Rep), right |-> rhs]}
         \cup (IF Gt(lhs, Convert(common_type(Rep, T),
                                  TruncDiv(numeric_limits_max(Rep), rhs)))
               THEN {}
               ELSE {[operator |-> "/", left |-> numeric_limits_min(Rep),
                      right |-> rhs]})
  ELSE IF Lt(rhs, Num(-1))
  THEN {[operator |-> "/", left |-> numeric_limits_min(Rep), right |-> rhs]}
         \cup (IF Gt(lhs, Convert(common_type(Rep, T),
                                  TruncDiv(numeric_limits_min(Rep), rhs)))
               THEN {}
               ELSE {[operator |-> "/", left |-> numeric_limits_max(Rep),
                      right |-> rhs]})
  ELSE {}

---------------------------------------------------------------------------
(* The state machine: a representation type and a radix (the template      *)
(* arguments, fixed for good), two scaled_integer inputs x and y, and the  *)
(* result res of the operation applied to them.  A behaviour is one        *)
(* evaluation: the inputs are drawn, then one operation yields its result. *)

VARIABLES rep, rad, x, y, res

vars == <<rep, rad, x, y, res>>

\* scales run over -MaxScale..MaxScale and, in base 10, the largest
\* exponent of the kernel of the representation type
MaxScale == 2

kernel_max_exp10(Rep) ==
  IF Rep.bits <= 32 THEN max_exp10_32bit
  ELSE IF Rep.bits <= 64 THEN max_exp10_64bit
  ELSE max_exp10_128bit

Scales(Rep, Rad) ==
  (-MaxScale..MaxScale) \cup (IF Rad = 10 THEN {kernel_max_exp10(Rep)} ELSE {})

\* coefficients: the least value of Rep, a negative odd one, zero, and a
\* pair c, Rad * c that denote the same number one scale apart
Values(Rep, Rad) ==
  {numeric_limits_min(Rep), Num(-7), Zero, Num(15), Num(15 * Rad)}

Inputs(Rep, Rad) ==
  {scaled_integer(v, s) : v \in Values(Rep, Rad), s \in Scales(Rep, Rad)}

NoResult == [op |-> "none"]

Init ==
  /\ rep \in SupportedRep
  /\ rad \in Radix
  /\ x \in Inputs(rep, rad)
  /\ y \in Inputs(rep, rad)
  /\ res = NoResult

this_lhs == fixed_point_raw(x)
this_rhs == fixed_point_raw(y)

\* no shift of the operation is by the width of Rep or more
RescaleDefined(this, scale) == ShiftDefined(rad, rep, scale - this.scale)
CommonScaleDefined ==
  /\ RescaleDefined(this_lhs, std_min(this_lhs.scale, this_rhs.scale))
  /\ RescaleDefined(this_rhs, std_min(this_lhs.scale, this_rhs.scale))

Construct ==
  /\ res = NoResult
  /\ ShiftDefined(rad, rep, x.scale)
  /\ res' = [op |-> "construct", out |-> fixed_point(rep, rad, x.value, x.scale)]
  /\ UNCHANGED <<rep, rad, x, y>>

RawConstruct ==
  /\ res = NoResult
  /\ res' = [op |-> "raw", out |-> fixed_point_raw(x),
             back |-> to_scaled_integer(fixed_point_raw(x))]
  /\ UNCHANGED <<rep, rad, x, y>>

\* this_lhs.rescaled(y.scale), and that result rescaled to the scale of x again
Rescaled ==
  /\ res = NoResult
  /\ RescaleDefined(this_lhs, y.scale)
  /\ res' = [op   |-> "rescaled",
             out  |-> rescaled(rep, rad, this_lhs, y.scale),
             back |-> rescaled(rep, rad, rescaled(rep, rad, this_lhs, y.scale),
                               x.scale)]
  /\ UNCHANGED <<rep, rad, x, y>>

Plus ==
  /\ res = NoResult
  /\ CommonScaleDefined
  /\ res' = [op |-> "plus", out |-> operator_plus(rep, rad, this_lhs, this_rhs)]
  /\ UNCHANGED <<rep, rad, x, y>>

Minus ==
  /\ res = NoResult
  /\ CommonScaleDefined
  /\ res' = [op |-> "minus", out |-> operator_minus(rep, rad, this_lhs, this_rhs)]
  /\ UNCHANGED <<rep, rad, x, y>>

Multiplies ==
  /\ res = NoResult
  /\ res' = [op |-> "multiplies", out |-> operator_multiplies(rep, rad, this_lhs, this_rhs)]
  /\ UNCHANGED <<rep, rad, x, y>>

\* division by zero, and numeric_limits::min() / -1, have no result
Divides ==
  /\ res = NoResult
  /\ ~IsZero(this_rhs.value)
  /\ ~(this_lhs.value = numeric_limits_min(rep) /\ this_rhs.value = Num(-1))
  /\ res' = [op |-> "divides", out |-> operator_divides(rep, rad, this_lhs, this_rhs)]
  /\ UNCHANGED <<rep, rad, x, y>>

Modulo ==
  /\ res = NoResult
  /\ CommonScaleDefined
  /\ LET scale == std_min(this_lhs.scale, this_rhs.scale)
         l == rescaled(rep, rad, this_lhs, scale).value
         r == rescaled(rep, rad, this_rhs, scale).value
     IN  /\ ~IsZero(r)
         /\ ~(l = numeric_limits_min(rep) /\ r = Num(-1))
  /\ res' = [op |-> "modulo", out |-> operator_modulo(rep, rad, this_lhs, this_rhs)]
  /\ UNCHANGED <<rep, rad, x, y>>

\* the expression (this_lhs / this_rhs) * this_rhs + (this_lhs % this_rhs),
\* where both the division and the remainder have a result
TruncationRule ==
  /\ res = NoResult
  /\ CommonScaleDefined
  /\ ~IsZero(this_rhs.value)
  /\ ~(this_lhs.value = numeric_limits_min(rep) /\ this_rhs.value = Num(-1))
  /\ LET scale == std_min(this_lhs.scale, this_rhs.scale)
         l == rescaled(rep, rad, this_lhs, scale).value
         r == rescaled(rep, rad, this_rhs, scale).value
     IN  /\ ~IsZero(r)
         /\ ~(l = numeric_limits_min(rep) /\ r = Num(-1))
  /\ res' = [op   |-> "truncation",
             quot |-> operator_divides(rep, rad, this_lhs, this_rhs),
             rem  |-> operator_modulo(rep, rad, this_lhs, this_rhs),
             out  |-> operator_plus(rep, rad,
                        operator_multiplies(rep, rad,
                          operator_divides(rep, rad, this_lhs, this_rhs), this_rhs),
                        operator_modulo(rep, rad, this_lhs, this_rhs))]
  /\ UNCHANGED <<rep, rad, x, y>>

\* ++this_lhs: out is this_lhs afterwards
Increment ==
  /\ res = NoResult
  /\ ShiftDefined(rad, rep, x.scale)
  /\ res' = [op |-> "increment", out |-> operator_increment(rep, rad, this_lhs)]
  /\ UNCHANGED <<rep, rad, x, y>>

Compare ==
  /\ res = NoResult
  /\ CommonScaleDefined
  /\ res' = [op |-> "compare",
             eq |-> operator_eq(rep, rad, this_lhs, this_rhs),
             ne |-> operator_ne(rep, rad, this_lhs, this_rhs),
             le |-> operator_le(rep, rad, this_lhs, this_rhs),
             ge |-> operator_ge(rep, rad, this_lhs, this_rhs),
             lt |-> operator_lt(rep, rad, this_lhs, this_rhs),
             gt |-> operator_gt(rep, rad, this_lhs, this_rhs)]
  /\ UNCHANGED <<rep, rad, x, y>>

Next ==
  \/ Construct
  \/ RawConstruct
  \/ Rescaled
  \/ Plus
  \/ Minus
  \/ Multiplies
  \/ Divides
  \/ Modulo
  \/ TruncationRule
  \/ Increment
  \/ Compare

Spec == Init /\ [][Next]_vars

TypeOK ==
  /\ rep \in SupportedRep
  /\ rad \in Radix
  /\ InRange(rep, x.value) /\ InRange(rep, y.value)
  /\ res.op \in {"construct", "raw", "rescaled", "plus", "minus", "multiplies",
                 "divides", "modulo", "truncation", "increment",
                 "construct_string"}
       => InRange(rep, res.out.value)
  /\ res.op \in {"divide_power10", "multiply_power10"} => InRange(rep, res.out)
  /\ res.op = "operator_U" => InRange(res.U, res.out)

---------------------------------------------------------------------------
(* The overflow predicates applied: x.value is lhs and y.value is rhs, the *)
(* coefficients of two operands at one scale, and T is Rep, as in the      *)
(* operators' assertions.                                                  *)

\* 2^(bits - 2): twice this is the least integer above the greatest of Rep
Quarter(Rep) == TruncDiv(MkInt(FALSE, HalfModulus(Rep)), Num(2))

\* the limits of Rep and their neighbours, the integers about zero, and the
\* integers about a quarter of the range, whose doubles lie about the limits
OverflowValues(Rep) ==
  {numeric_limits_min(Rep), Add(numeric_limits_min(Rep), One),
   numeric_limits_max(Rep), Sub(numeric_limits_max(Rep), One),
   Quarter(Rep), Sub(Quarter(Rep), One),
   Neg(Quarter(Rep)), Sub(Neg(Quarter(Rep)), One)}
    \cup {Num(n) : n \in -3..3}

InitOverflow ==
  /\ rep \in SupportedRep
  /\ rad \in Radix
  /\ x \in {scaled_integer(v, 0) : v \in OverflowValues(rep)}
  /\ y \in {scaled_integer(v, 0) : v \in OverflowValues(rep)}
  /\ res = NoResult

AdditionOverflow ==
  /\ res = NoResult
  /\ res' = [op |-> "addition_overflow",
             overflow |-> addition_overflow(rep, rep, x.value, y.value),
             evaluated |-> addition_overflow_evaluated(rep, rep, x.value, y.value)]
  /\ UNCHANGED <<rep, rad, x, y>>

SubtractionOverflow ==
  /\ res = NoResult
  /\ res' = [op |-> "subtraction_overflow",
             overflow |-> subtraction_overflow(rep, rep, x.value, y.value),
             evaluated |-> subtraction_overflow_evaluated(rep, rep, x.value, y.value)]
  /\ UNCHANGED <<rep, rad, x, y>>

MultiplicationOverflow ==
  /\ res = NoResult
  /\ res' = [op |-> "multiplication_overflow",
             overflow |-> multiplication_overflow(rep, rep, x.value, y.value),
             evaluated |-> multiplication_overflow_evaluated(rep, rep, x.value, y.value)]
  /\ UNCHANGED <<rep, rad, x, y>>

DivisionOverflow ==
  /\ res = NoResult
  /\ res' = [op |-> "division_overflow",
             overflow |-> division_overflow(rep, rep, x.value, y.value),
             evaluated |-> {}]
  /\ UNCHANGED <<rep, rad, x, y>>

NextOverflow ==
  \/ AdditionOverflow
  \/ SubtractionOverflow
  \/ MultiplicationOverflow
  \/ DivisionOverflow

SpecOverflow == InitOverflow /\ [][NextOverflow]_vars

---------------------------------------------------------------------------
(* The conversion to std::string applied, in base 10: to a fixed_point of  *)
(* the coefficient and scale of x, and to the fixed_point the shifting     *)
(* constructor makes of the value and scale of x.                          *)

\* coefficients of one digit and of several, of both signs, and the limits
StringValues(Rep) ==
  {numeric_limits_min(Rep), numeric_limits_max(Rep),
   Num(-1050), Num(-5), Zero, Num(7), Num(1001)}

StringScales(Rep) ==
  (-(MaxScale + 1)..MaxScale) \cup {-kernel_max_exp10(Rep), kernel_max_exp10(Rep)}

InitString ==
  /\ rep \in SupportedRep
  /\ rad = 10
  /\ x \in {scaled_integer(v, s) : v \in StringValues(rep), s \in StringScales(rep)}
  /\ y = scaled_integer(Zero, 0)
  /\ res = NoResult

\* with a negative scale the conversion negates a negative coefficient and
\* computes 10^(-scale) in Rep: neither is defined when it overflows
StringDefined(Rep, this) ==
  this.scale < 0 => /\ this.value # numeric_limits_min(Rep)
                    /\ InRange(Rep, Pow10(-this.scale))

OperatorString ==
  /\ res = NoResult
  /\ StringDefined(rep, this_lhs)
  /\ res' = [op |-> "string", str |-> operator_string(rep, this_lhs)]
  /\ UNCHANGED <<rep, rad, x, y>>

ConstructedString ==
  /\ res = NoResult
  /\ ShiftDefined(rad, rep, x.scale)
  /\ StringDefined(rep, fixed_point(rep, rad, x.value, x.scale))
  /\ res' = [op  |-> "construct_string",
             out |-> fixed_point(rep, rad, x.value, x.scale),
             str |-> operator_string(rep, fixed_point(rep, rad, x.value, x.scale))]
  /\ UNCHANGED <<rep, rad, x, y>>

NextString ==
  \/ OperatorString
  \/ ConstructedString

SpecString == InitString /\ [][NextString]_vars

---------------------------------------------------------------------------
(* The explicit conversion to an integral type U applied to a fixed_point  *)
(* of the coefficient and scale of x; U is one of the signed types.  In    *)
(* base 10 the scales reach one past the largest exponent of the kernel of *)
(* Rep, on both sides of zero.                                             *)

ConversionValues(Rep) == {numeric_limits_min(Rep), Num(-7), Zero, One, Num(15)}

ConversionScales(Rep, Rad) ==
  (-MaxScale..MaxScale)
    \cup (IF Rad = 10
          THEN {-kernel_max_exp10(Rep), kernel_max_exp10(Rep),
                kernel_max_exp10(Rep) + 1}
          ELSE {})

InitConversion ==
  /\ rep \in SupportedRep
  /\ rad \in Radix
  /\ x \in {scaled_integer(v, s) : v \in ConversionValues(rep),
                                   s \in ConversionScales(rep, rad)}
  /\ y = scaled_integer(Zero, 0)
  /\ res = NoResult

OperatorU ==
  /\ res = NoResult
  /\ \E U \in SupportedRep :
       /\ ShiftDefined(rad, common_type(U, rep), -x.scale)
       /\ res' = [op |-> "operator_U", U |-> U,
                  out |-> operator_U(rep, rad, U, this_lhs)]
  /\ UNCHANGED <<rep, rad, x, y>>

NextConversion == OperatorU

SpecConversion == InitConversion /\ [][NextConversion]_vars

---------------------------------------------------------------------------
(* The power-of-10 kernels applied: the kernel is that of the width of     *)
(* rep, which is also the type T of value; x.value is value and x.scale is *)
(* exp10, the scale that right_shift and left_shift hand to the kernel.    *)
(* The exponents run from below 0 to beyond the last case of the switch.   *)

KernelValues(Rep) ==
  {numeric_limits_min(Rep), numeric_limits_max(Rep), Num(-7), Num(-1), Zero,
   Num(15)}

KernelExponents(Rep) == (-MaxScale)..(kernel_max_exp10(Rep) + MaxScale)

InitKernels ==
  /\ rep \in SupportedRep
  /\ rad = 10
  /\ x \in {scaled_integer(v, e) : v \in KernelValues(rep),
                                   e \in KernelExponents(rep)}
  /\ y = scaled_integer(Zero, 0)
  /\ res = NoResult

DividePower10 ==
  /\ res = NoResult
  /\ res' = [op  |-> "divide_power10",
             out |-> divide_power10(rep, rep, x.value, x.scale)]
  /\ UNCHANGED <<rep, rad, x, y>>

MultiplyPower10 ==
  /\ res = NoResult
  /\ res' = [op  |-> "multiply_power10",
             out |-> multiply_power10(rep, rep, x.value, x.scale)]
  /\ UNCHANGED <<rep, rad, x, y>>

NextKernels ==
  \/ DividePower10
  \/ MultiplyPower10

SpecKernels == InitKernels /\ [][NextKernels]_vars

---------------------------------------------------------------------------
(* detail::ipow<rep, rad>(x.scale) run step by step: the call, which       *)
(* returns at once in base 2 and for an exponent of 0, each turn of the    *)
(* loop, and the return after it.  The exponent is the int_scale that      *)
(* right_shift and left_shift hand to ipow; in base 10 it runs beyond the  *)
(* largest power of 10 of Rep, in base 2 over the counts below the width.  *)

InitIpow ==
  /\ rep \in SupportedRep
  /\ rad \in Radix
  /\ x \in {scaled_integer(Zero, e) :
              e \in IF rad = 10 THEN 0..(kernel_max_exp10(rep) + MaxScale)
                    ELSE 0..(rep.bits - 1)}
  /\ y = scaled_integer(Zero, 0)
  /\ res = NoResult

IpowCall ==
  /\ res = NoResult
  /\ res' = IF rad = 2
            THEN [op |-> "ipow", pc |-> "done", iterations |-> 0,
                  out |-> ShiftLeft(rep, One, x.scale)]
            ELSE IF x.scale = 0
            THEN [op |-> "ipow", pc |-> "done", iterations |-> 0, out |-> One]
            ELSE [op |-> "ipow", pc |-> "while", iterations |-> 0,
                  exponent |-> x.scale, extra |-> One,
                  square |-> Convert(rep, Num(rad))]
  /\ UNCHANGED <<rep, rad, x, y>>

IpowWhile ==
  /\ res.op = "ipow" /\ res.pc = "while"
  /\ res.exponent > 1
  /\ res' = ipow_while(rep, res)
  /\ UNCHANGED <<rep, rad, x, y>>

IpowReturn ==
  /\ res.op = "ipow" /\ res.pc = "while"
  /\ ~(res.exponent > 1)
  /\ res' = [op |-> "ipow", pc |-> "done", iterations |-> res.iterations,
             out |-> Convert(rep, Mul(res.square, res.extra))]
  /\ UNCHANGED <<rep, rad, x, y>>

NextIpow ==
  \/ IpowCall
  \/ IpowWhile
  \/ IpowReturn

SpecIpow == InitIpow /\ [][NextIpow]_vars

---------------------------------------------------------------------------
(* The numbers the properties speak of.  A fixed_point of coefficient v    *)
(* and scale s represents v * rad^s; for a scale t <= s, ScaledTo is that  *)
(* number in units of rad^t, an integer, computed without any bound.       *)

RadixPow(k) == Pow(Num(rad), k)

ScaledTo(this, t) == Mul(this.value, RadixPow(this.scale - t))

\* the represented values of two fixed_point numbers compared: -1, 0 or 1
CmpRepresented(p, q) ==
  Cmp(ScaledTo(p, std_min(p.scale, q.scale)), ScaledTo(q, std_min(p.scale, q.scale)))

\* v / rad^k truncated toward zero, as the integer it is
Truncated(v, k) == TruncDiv(v, RadixPow(k))

---------------------------------------------------------------------------
(* C1  The shifting constructor.                                           *)

\* C1: fixed_point<Rep, Rad>(value, scale) stores the scale as given and the
\* coefficient value when scale = 0, value / Rad^scale truncated toward zero
\* when scale > 0, and value * Rad^(-scale) when scale < 0 and that product
\* fits in Rep.
C1_ScaledConstruction ==
  res.op = "construct" =>
    /\ res.out.scale = x.scale
    /\ x.scale = 0 => res.out.value = x.value
    /\ x.scale > 0 => res.out.value = Truncated(x.value, x.scale)
    /\ (x.scale < 0 /\ InRange(rep, Mul(x.value, RadixPow(-x.scale))))
         => res.out.value = Mul(x.value, RadixPow(-x.scale))

\* the 64-bit decimal constructed from -7 with scale 19 holds the coefficient
\* 1, where -7 / 10^19 truncated is 0
C1_Int64Exp19 ==
  /\ res.op = "construct"
  /\ rep = int64_t /\ rad = 10
  /\ x = scaled_integer(Num(-7), max_exp10_64bit)
  /\ res.out.value = One

---------------------------------------------------------------------------
(* C2  fixed_point<int32_t, Radix::BASE_10>(150, scale_type{-2}).          *)

\* C2 as stated: the 32-bit decimal constructed from the integer 150 with
\* scale -2 stores the coefficient 150 and the scale -2.
C2_Stores150 ==
  (/\ res.op = "construct"
   /\ rep = int32_t /\ rad = 10
   /\ x = scaled_integer(Num(150), -2))
    => res.out = [value |-> Num(150), scale |-> -2]

\* C2 as the code has it: the 32-bit decimal constructed from the integer 150
\* with scale -2 stores the coefficient 15000 = 150 * 10^2 and the scale -2,
\* which represents 150.00 and not 1.50.
C2_Stores15000 ==
  (/\ res.op = "construct"
   /\ rep = int32_t /\ rad = 10
   /\ x = scaled_integer(Num(150), -2))
    => /\ res.out = [value |-> Num(15000), scale |-> -2]
       /\ CmpRepresented(res.out, [value |-> Num(150), scale |-> 0]) = 0

C2_Constructed ==
  /\ res.op = "construct"
  /\ rep = int32_t /\ rad = 10
  /\ x = scaled_integer(Num(150), -2)
  /\ res.out.value = Num(15000)

---------------------------------------------------------------------------
(* C3  operator+ and operator-.                                            *)

\* the exact sum or difference of the operands in units of rad^scale
ExactSum(scale) ==
  IF res.op = "plus"
  THEN Add(ScaledTo(this_lhs, scale), ScaledTo(this_rhs, scale))
  ELSE Sub(ScaledTo(this_lhs, scale), ScaledTo(this_rhs, scale))

\* the sum or difference of the rescaled coefficients
SumOfRescaled(scale) ==
  IF res.op = "plus"
  THEN Add(rescaled(rep, rad, this_lhs, scale).value,
           rescaled(rep, rad, this_rhs, scale).value)
  ELSE Sub(rescaled(rep, rad, this_lhs, scale).value,
           rescaled(rep, rad, this_rhs, scale).value)

\* neither operand brought to the scale, nor the exact result, overflows Rep
SumFits(scale) ==
  /\ InRange(rep, ScaledTo(this_lhs, scale))
  /\ InRange(rep, ScaledTo(this_rhs, scale))
  /\ InRange(rep, ExactSum(scale))

\* C3: lhs + rhs and lhs - rhs have the scale min(lhs.scale, rhs.scale) and
\* the coefficient lhs.rescaled(min).value op rhs.rescaled(min).value; when
\* no rescaled coefficient and no result overflows Rep, the result represents
\* exactly the sum (difference) of the numbers the operands represent.
C3_PlusMinus ==
  res.op \in {"plus", "minus"} =>
    /\ res.out.scale = std_min(x.scale, y.scale)
    /\ res.out.value = Convert(rep, SumOfRescaled(std_min(x.scale, y.scale)))
    /\ SumFits(std_min(x.scale, y.scale))
         => res.out.value = ExactSum(std_min(x.scale, y.scale))

\* 15 * 10^1 + (-7) * 10^0 = 143 * 10^0
C3_Added ==
  /\ res.op = "plus"
  /\ rad = 10
  /\ x = scaled_integer(Num(15), 1) /\ y = scaled_integer(Num(-7), 0)
  /\ SumFits(0)
  /\ res.out = [value |-> Num(143), scale |-> 0]

---------------------------------------------------------------------------
(* C4  operator* and operator/.                                            *)

\* q is n / d truncated toward zero: n = q * d + r with |r| < |d| and r zero
\* or of the sign of n
IsTruncatedQuotient(q, n, d) ==
  /\ Lt(Abs(Sub(n, Mul(q, d))), Abs(d))
  /\ IsZero(Sub(n, Mul(q, d))) \/ Sub(n, Mul(q, d)).neg = n.neg

\* C4: lhs * rhs has the scale lhs.scale + rhs.scale and the coefficient
\* lhs.value * rhs.value (computed in Rep, so exact when the product fits);
\* lhs / rhs has the scale lhs.scale - rhs.scale and the coefficient
\* lhs.value / rhs.value truncated toward zero.  Neither rescales an operand.
C4_MultipliesDivides ==
  /\ res.op = "multiplies" =>
       /\ res.out.scale = x.scale + y.scale
       /\ res.out.value = Convert(rep, Mul(x.value, y.value))
       /\ InRange(rep, Mul(x.value, y.value))
            => res.out.value = Mul(x.value, y.value)
  /\ res.op = "divides" =>
       /\ res.out.scale = x.scale - y.scale
       /\ IsTruncatedQuotient(res.out.value, x.value, y.value)

\* 150 / -7 = -21 and not -22, at the scale 1 - (-2)
C4_Divided ==
  /\ res.op = "divides"
  /\ rad = 10
  /\ x = scaled_integer(Num(150), 1) /\ y = scaled_integer(Num(-7), -2)
  /\ res.out = [value |-> Num(-21), scale |-> 3]

---------------------------------------------------------------------------
(* C5  The comparison operators and the order of the represented values.   *)

\* C5: when rescaling both operands to min(a.scale, b.scale) does not
\* overflow Rep, each of ==, !=, <, <=, >, >= is the comparison of the
\* represented values a.value * rad^a.scale and b.value * rad^b.scale.
C5_ComparisonsAgree ==
  (/\ res.op = "compare"
   /\ InRange(rep, ScaledTo(this_lhs, std_min(x.scale, y.scale)))
   /\ InRange(rep, ScaledTo(this_rhs, std_min(x.scale, y.scale))))
    => /\ res.eq = (CmpRepresented(this_lhs, this_rhs) = 0)
       /\ res.ne = (CmpRepresented(this_lhs, this_rhs) # 0)
       /\ res.lt = (CmpRepresented(this_lhs, this_rhs) < 0)
       /\ res.le = (CmpRepresented(this_lhs, this_rhs) <= 0)
       /\ res.gt = (CmpRepresented(this_lhs, this_rhs) > 0)
       /\ res.ge = (CmpRepresented(this_lhs, this_rhs) >= 0)

\* 15 * rad^1 == (15 * rad) * rad^0: equal numbers, different storage
C5_EqualAcrossScales ==
  /\ res.op = "compare"
  /\ x = scaled_integer(Num(15), 1) /\ y = scaled_integer(Num(15 * rad), 0)
  /\ res.eq /\ ~res.lt /\ ~res.gt

---------------------------------------------------------------------------
(* C6  rescaled to a coarser scale.                                        *)

\* C6: for every representation type and both bases, this.rescaled(scale)
\* with scale > this.scale has the scale asked for and the coefficient
\* this.value / rad^(scale - this.scale) truncated toward zero, negative
\* coefficients included.
C6_RescaleTruncates ==
  (res.op = "rescaled" /\ y.scale > x.scale) =>
    /\ res.out.scale = y.scale
    /\ res.out.value = Truncated(x.value, y.scale - x.scale)

\* the 64-bit decimal -7 at scale 0, rescaled to scale 19, has coefficient 1
C6_Int64Exp19 ==
  /\ res.op = "rescaled"
  /\ rep = int64_t /\ rad = 10
  /\ x = scaled_integer(Num(-7), 0) /\ y.scale = max_exp10_64bit
  /\ res.out = [value |-> One, scale |-> max_exp10_64bit]

---------------------------------------------------------------------------
(* C7  rescaled to a finer scale and back.                                 *)

\* C7: for every scale s' <= this.scale such that this.value *
\* rad^(this.scale - s') fits in Rep, this.rescaled(s').rescaled(this.scale)
\* has the coefficient and the scale of this; and this.rescaled(this.scale)
\* is this.
C7_LosslessRoundTrip ==
  (/\ res.op = "rescaled"
   /\ y.scale <= x.scale
   /\ InRange(rep, ScaledTo(this_lhs, y.scale)))
    => /\ res.back = this_lhs
       /\ y.scale = x.scale => res.out = this_lhs

\* -7 at scale 1 goes to -7 * rad^2 at scale -1 and comes back
C7_WentAndCameBack ==
  /\ res.op = "rescaled"
  /\ x = scaled_integer(Num(-7), 1) /\ y.scale = -1
  /\ res.out = [value |-> Num(-7 * rad * rad), scale |-> -1]
  /\ res.back = [value |-> Num(-7), scale |-> 1]

---------------------------------------------------------------------------
(* C8  The raw constructor.                                                *)

\* C8: fixed_point(scaled_integer(c, s)) has the value c and the scale s, for
\* every c and s, and converts back to the scaled_integer (c, s).
C8_RawRoundTrip ==
  res.op = "raw" =>
    /\ res.out.value = x.value
    /\ res.out.scale = x.scale
    /\ res.back = x

\* the coefficient 15 at scale -2 stays 15, where shifting would make it
\* 15 * rad^2
C8_RawKept ==
  /\ res.op = "raw"
  /\ x = scaled_integer(Num(15), -2)
  /\ res.out.value = Num(15)
  /\ res.back = scaled_integer(Num(15), -2)

---------------------------------------------------------------------------
(* C9  (lhs / rhs) * rhs + (lhs % rhs).                                    *)

\* no step of the expression overflows Rep: the operands brought to the
\* common scale for %, the product, the product brought to the scale of the
\* remainder, and the sum
TruncationFits ==
  /\ InRange(rep, ScaledTo(this_lhs, std_min(x.scale, y.scale)))
  /\ InRange(rep, ScaledTo(this_rhs, std_min(x.scale, y.scale)))
  /\ InRange(rep, Mul(res.quot.value, y.value))
  /\ InRange(rep, ScaledTo([value |-> Mul(res.quot.value, y.value),
                            scale |-> x.scale], res.rem.scale))
  /\ InRange(rep, Add(ScaledTo([value |-> Mul(res.quot.value, y.value),
                                scale |-> x.scale], res.rem.scale),
                      res.rem.value))

\* C9 as stated: for all lhs and rhs with a nonzero rhs coefficient and no
\* overflow, operands of different scales included, (lhs / rhs) * rhs +
\* (lhs % rhs) represents the number lhs represents.
C9_TruncationRule ==
  (res.op = "truncation" /\ TruncationFits)
    => CmpRepresented(res.out, this_lhs) = 0

\* C9 as the code has it: the rule holds for operands of the same scale,
\* where the result has the coefficient and the scale of lhs.
C9_TruncationRuleSameScale ==
  (res.op = "truncation" /\ TruncationFits /\ x.scale = y.scale)
    => /\ res.out = this_lhs
       /\ CmpRepresented(res.out, this_lhs) = 0

\* 150 / -7 = -21, -21 * -7 = 147, 150 % -7 = 3, and 147 + 3 = 150
C9_SameScaleRestored ==
  /\ res.op = "truncation"
  /\ x = scaled_integer(Num(150), 1) /\ y = scaled_integer(Num(-7), 1)
  /\ TruncationFits
  /\ res.quot.value = Num(-21) /\ res.rem.value = Num(3)
  /\ res.out = [value |-> Num(150), scale |-> 1]

---------------------------------------------------------------------------
(* C10  The six comparison operators among themselves.                     *)

\* C10: for every pair a, b exactly one of a < b, a == b, a > b is true;
\* a <= b iff not a > b; a >= b iff not a < b; a != b iff not a == b.
C10_ComparisonConsistency ==
  res.op = "compare" =>
    /\ Cardinality({i \in 1..3 : <<res.lt, res.eq, res.gt>>[i]}) = 1
    /\ res.le = ~res.gt
    /\ res.ge = ~res.lt
    /\ res.ne = ~res.eq

\* a pair whose rescaling overflows: the least int32_t at scale 1 shifts to 0
\* at scale 0 and compares greater than -7
C10_ComparedWrapped ==
  /\ res.op = "compare"
  /\ rep = int32_t /\ rad = 2
  /\ x = scaled_integer(numeric_limits_min(int32_t), 1)
  /\ y = scaled_integer(Num(-7), 0)
  /\ ~InRange(rep, ScaledTo(this_lhs, 0))
  /\ res.gt /\ res.ge /\ res.ne /\ ~res.le /\ ~res.lt /\ ~res.eq
---------------------------------------------------------------------------
(* C11  addition_overflow and subtraction_overflow.                        *)

\* C11: for every pair lhs, rhs of values of Rep, the limits and 0 included,
\* addition_overflow<Rep>(lhs, rhs) is true iff the integer lhs + rhs lies
\* outside [min, max] of Rep, and subtraction_overflow<Rep>(lhs, rhs) is true
\* iff the integer lhs - rhs does.
C11_AddSubOverflowSound ==
  /\ res.op = "addition_overflow"
       => res.overflow = ~InRange(rep, Add(x.value, y.value))
  /\ res.op = "subtraction_overflow"
       => res.overflow = ~InRange(rep, Sub(x.value, y.value))

\* min - 1 is reported, with a negative rhs in the addition: min + (-1)
C11_BelowMinReported ==
  /\ res.op = "addition_overflow"
  /\ x.value = numeric_limits_min(rep) /\ y.value = Num(-1)
  /\ res.overflow

---------------------------------------------------------------------------
(* C12  multiplication_overflow.                                           *)

\* C12: for every pair lhs, rhs of values of Rep, multiplication_overflow<Rep>
\* (lhs, rhs) is true iff the integer lhs * rhs lies outside [min, max] of
\* Rep, in each of the cases rhs > 0, rhs < -1, rhs = -1 and rhs = 0.
C12_MulOverflowSound ==
  res.op = "multiplication_overflow"
    => res.overflow = ~InRange(rep, Mul(x.value, y.value))

\* rhs = -1: min * -1 = max + 1 is reported
C12_MinTimesMinusOne ==
  /\ res.op = "multiplication_overflow"
  /\ x.value = numeric_limits_min(rep) /\ y.value = Num(-1)
  /\ res.overflow
---------------------------------------------------------------------------
(* Reading a string of decimal digits as the number it writes.             *)

IsDigit(ch) == \E d \in 1..10 : Digits[d] = ch

DigitValue(ch) == CHOOSE d \in 0..9 : Digits[d + 1] = ch

\* a natural number written without a sign and without a needless zero in
\* front
IsNatural(s) ==
  /\ Len(s) >= 1
  /\ \A i \in 1..Len(s) : IsDigit(s[i])
  /\ Len(s) > 1 => s[1] # "0"

\* the number that at most four digits write
RECURSIVE ReadSmall(_)
ReadSmall(s) ==
  IF s = <<>> THEN 0
  ELSE ReadSmall(SubSeq(s, 1, Len(s) - 1)) * 10 + DigitValue(s[Len(s)])

\* the limbs of the number the digits s write: four digits a limb, from the
\* right
RECURSIVE ReadMag(_)
ReadMag(s) ==
  IF Len(s) <= 4 THEN <<ReadSmall(s)>>
  ELSE <<ReadSmall(SubSeq(s, Len(s) - 3, Len(s)))>>
         \o ReadMag(SubSeq(s, 1, Len(s) - 4))

ReadNat(s) == MkInt(FALSE, MagNorm(ReadMag(s)))

\* s is "-" iff neg, and then the natural number of magnitude m
IsSignedNatural(s, neg, m) ==
  /\ Len(s) >= 1
  /\ (s[1] = "-") = neg
  /\ IsNatural(IF neg THEN Tail(s) ELSE s)
  /\ ReadNat(IF neg THEN Tail(s) ELSE s) = m

---------------------------------------------------------------------------
(* C13  The string of a value with a negative scale.                       *)

\* C13: for a base-10 value with scale < 0, a coefficient other than the
\* least of Rep and 10^(-scale) representable in Rep, the string is "-" iff
\* the coefficient is negative, then the decimal digits of |coefficient| /
\* 10^(-scale), then ".", then exactly -scale digits that write |coefficient|
\* % 10^(-scale) with zeros in front; read as a decimal number, the string is
\* coefficient * 10^scale exactly.
C13_NegativeScaleString ==
  (/\ res.op = "string"
   /\ x.scale < 0
   /\ x.value # numeric_limits_min(rep)
   /\ InRange(rep, Pow10(-x.scale)))
    => /\ Len(res.str) >= 2 - x.scale
       /\ res.str[Len(res.str) + x.scale] = "."
       /\ IsSignedNatural(SubSeq(res.str, 1, Len(res.str) + x.scale - 1),
                          IsNeg(x.value),
                          TruncDiv(Abs(x.value), Pow10(-x.scale)))
       /\ \A i \in (Len(res.str) + x.scale + 1)..Len(res.str) : IsDigit(res.str[i])
       /\ ReadNat(SubSeq(res.str, Len(res.str) + x.scale + 1, Len(res.str)))
            = TruncRem(Abs(x.value), Pow10(-x.scale))
       /\ ReadNat(SelectSeq(res.str, IsDigit)) = Abs(x.value)

\* the coefficient -5 at scale -2 is written "-0.05"
C13_MinusFiveHundredths ==
  /\ res.op = "string"
  /\ x = scaled_integer(Num(-5), -2)
  /\ res.str = <<"-", "0", ".", "0", "5">>

---------------------------------------------------------------------------
(* C14  The string of a value with a scale of zero or more.                *)

\* C14: for a base-10 value with scale >= 0, the string is the decimal
\* rendering of the stored coefficient, with its sign, followed by exactly
\* scale characters "0", and holds no decimal point; so it is for a
\* coefficient of zero.
C14_NonNegativeScaleString ==
  (res.op = "string" /\ x.scale >= 0)
    => /\ Len(res.str) >= 1 + x.scale
       /\ IsSignedNatural(SubSeq(res.str, 1, Len(res.str) - x.scale),
                          IsNeg(x.value), Abs(x.value))
       /\ \A i \in (Len(res.str) - x.scale + 1)..Len(res.str) : res.str[i] = "0"
       /\ \A i \in 1..Len(res.str) : res.str[i] # "."

\* the coefficient 0 at scale 2 is written "000"
C14_ZeroWithZeros ==
  /\ res.op = "string"
  /\ x = scaled_integer(Zero, 2)
  /\ res.str = <<"0", "0", "0">>

---------------------------------------------------------------------------
(* C15  The string of fixed_point<int32_t, Radix::BASE_10>(7, scale 2).    *)

\* C15 as stated: the 32-bit decimal constructed by the shifting constructor
\* from the integer 7 with scale 2 converts to the string "700".
C15_Renders700 ==
  (/\ res.op = "construct_string"
   /\ rep = int32_t /\ rad = 10
   /\ x = scaled_integer(Num(7), 2))
    => res.str = <<"7", "0", "0">>

\* C15 as the code has it: the 32-bit decimal constructed by the shifting
\* constructor from the integer 7 with scale 2 stores the coefficient 7 / 10^2
\* = 0 and converts to the string "000".
C15_Renders000 ==
  (/\ res.op = "construct_string"
   /\ rep = int32_t /\ rad = 10
   /\ x = scaled_integer(Num(7), 2))
    => /\ res.out = [value |-> Zero, scale |-> 2]
       /\ res.str = <<"0", "0", "0">>

C15_Constructed ==
  /\ res.op = "construct_string"
  /\ rep = int32_t /\ rad = 10
  /\ x = scaled_integer(Num(7), 2)
  /\ res.out.value = Zero
  /\ res.str = <<"0", "0", "0">>
---------------------------------------------------------------------------
(* C16  The explicit conversion to an integral type.                       *)

\* coefficient * 10^scale truncated toward zero, as the integer it is
TruncatedValue(this) ==
  IF this.scale >= 0 THEN Mul(this.value, Pow10(this.scale))
  ELSE TruncDiv(this.value, Pow10(-this.scale))

\* C16: in base 10, for every representation type Rep and integral type U,
\* the explicit conversion to U returns coefficient * 10^scale truncated
\* toward zero whenever that integer is representable in U, also when U is
\* wider than Rep and the scale is positive.
C16_ConversionTruncates ==
  (/\ res.op = "operator_U"
   /\ rad = 10
   /\ InRange(res.U, TruncatedValue(this_lhs)))
    => res.out = TruncatedValue(this_lhs)

\* the 32-bit decimal of coefficient 1 and scale 10 converts to the 64-bit
\* integer 0, where 1 * 10^10 is representable
C16_Int32Scale10 ==
  /\ res.op = "operator_U"
  /\ rep = int32_t /\ rad = 10 /\ res.U = int64_t
  /\ x = scaled_integer(One, max_exp10_32bit + 1)
  /\ InRange(res.U, TruncatedValue(this_lhs))
  /\ res.out = Zero
---------------------------------------------------------------------------
(* C17  operator++.                                                        *)

\* the number out represents is the number this_lhs represents and one more
OneGreater ==
  ScaledTo(res.out, std_min(x.scale, 0))
    = Add(ScaledTo(this_lhs, std_min(x.scale, 0)), RadixPow(-std_min(x.scale, 0)))

\* neither the coefficient of the one that is added nor the sum overflows Rep
IncrementFits ==
  /\ InRange(rep, RadixPow(-std_min(x.scale, 0)))
  /\ InRange(rep, Add(x.value, fixed_point(rep, rad, One, x.scale).value))

---------------------------------------------------------------------------
(* C18  The scale of a result.                                             *)

\* the scale the scales of the inputs give the result of each operation
ScaleOfInputs ==
  CASE res.op \in {"construct", "raw", "increment"}  -> x.scale
    [] res.op = "rescaled"                           -> y.scale
    [] res.op \in {"plus", "minus", "modulo"}        -> std_min(x.scale, y.scale)
    [] res.op = "multiplies"                         -> x.scale + y.scale
    [] res.op = "divides"                            -> x.scale - y.scale
    [] res.op = "truncation"
         -> std_min((x.scale - y.scale) + y.scale, std_min(x.scale, y.scale))

\* C18: the scale of every value a construction, a rescaling or an arithmetic
\* operation produces, alone or in sequence, is given by the scales of its
\* inputs (the constructor's argument; the argument of rescaled; the minimum
\* for +, - and %; the sum for *; the difference for /), whatever the
\* coefficients are: a coefficient of zero or with trailing zeros keeps its
\* scale.
C18_ScaleFromScalesAlone ==
  res.op \notin {"none", "compare"} =>
    /\ res.out.scale = ScaleOfInputs
    /\ res.op = "rescaled" => res.back.scale = x.scale
    /\ res.op = "truncation" => /\ res.quot.scale = x.scale - y.scale
                                /\ res.rem.scale = std_min(x.scale, y.scale)

\* 15 * rad^1 - 15 * rad^1 is the coefficient 0 at the scale 1, not at 0
C18_ZeroKeepsScale ==
  /\ res.op = "minus"
  /\ x = scaled_integer(Num(15), 1) /\ y = scaled_integer(Num(15), 1)
  /\ res.out = [value |-> Zero, scale |-> 1]
---------------------------------------------------------------------------
(* C19  The kernels within their range.                                    *)

\* C19: for each width N of 32, 64 and 128, T the signed type of that width
\* and every exp10 from 0 to 9, 19 and 38, divide_power10_Nbit(value, exp10)
\* is value / 10^exp10 truncated toward zero for every value of T, negative
\* ones included, and multiply_power10_Nbit(value, exp10) is value * 10^exp10
\* modulo 2^N in two's complement; so it is at the exponent 19 of the 64-bit
\* kernels, whose literal is unsigned.
C19_KernelsInRange ==
  x.scale \in 0..kernel_max_exp10(rep) =>
    /\ res.op = "divide_power10"
         => res.out = TruncDiv(x.value, Pow10(x.scale))
    /\ res.op = "multiply_power10"
         => res.out = Convert(rep, Mul(x.value, Pow10(x.scale)))

\* divide_power10_64bit(int64_t{-7}, 19) is 1, where -7 / 10^19 is 0
C19_Int64Exp19 ==
  /\ res.op = "divide_power10"
  /\ rep = int64_t
  /\ x = scaled_integer(Num(-7), max_exp10_64bit)
  /\ res.out = One

---------------------------------------------------------------------------
(* C20  The kernels outside their range.                                   *)

\* C20: each of the six kernels returns 0 for every value when exp10 is
\* below 0 or above 9, 19 or 38, the last exponent of its switch.
C20_KernelsOutOfRange ==
  (/\ res.op \in {"divide_power10", "multiply_power10"}
   /\ x.scale \notin 0..kernel_max_exp10(rep))
    => res.out = Zero

\* multiply_power10_32bit(15, 10) is 0, and not 15 * 10^10 modulo 2^32
C20_Int32Exp10 ==
  /\ res.op = "multiply_power10"
  /\ rep = int32_t
  /\ x = scaled_integer(Num(15), max_exp10_32bit + 1)
  /\ Convert(rep, Mul(x.value, Pow10(x.scale))) # Zero
  /\ res.out = Zero
---------------------------------------------------------------------------
(* C21  detail::ipow.                                                      *)

\* while the loop runs, with rad^exponent representable: square and extra
\* are positive and square^exponent * extra is rad^(the exponent given), so
\* neither exceeds it, and neither has wrapped
IpowLoopExact ==
  /\ Ge(res.square, One) /\ Ge(res.extra, One)
  /\ Mul(Pow(res.square, res.exponent), res.extra) = RadixPow(x.scale)
  /\ Le(res.square, RadixPow(x.scale)) /\ Le(res.extra, RadixPow(x.scale))

\* the turns of the loop are counted by halving: after n turns the exponent
\* is the exponent given divided by 2^n and is 1 or more, so the loop is left
\* after at most log2 of the exponent given turns, and the function returns
IpowTurnsBounded ==
  /\ res.pc = "while" => /\ res.exponent >= 1
                         /\ res.exponent = x.scale \div (2^res.iterations)
  /\ (res.pc = "done" /\ rad = 10 /\ x.scale >= 1)
       => /\ 2^res.iterations <= x.scale
          /\ x.scale < 2^(res.iterations + 1)

\* C21: ipow<Rep, B>(e) returns for every e >= 0; it returns exactly B^e
\* whenever B^e is representable in Rep, and then no square and no extra it
\* computes on the way exceeds B^e; for e = 0 it returns 1, and for base 2 it
\* returns 1 << e, both without a turn of the loop.
C21_IpowReturnsPower ==
  res.op = "ipow" =>
    /\ IpowTurnsBounded
    /\ (res.pc = "while" /\ InRange(rep, RadixPow(x.scale))) => IpowLoopExact
    /\ (res.pc = "done" /\ InRange(rep, RadixPow(x.scale)))
         => res.out = RadixPow(x.scale)
    /\ (res.pc = "done" /\ x.scale = 0) => res.out = One /\ res.iterations = 0
    /\ (res.pc = "done" /\ rad = 2)
         => res.out = Convert(rep, Pow2(x.scale)) /\ res.iterations = 0

\* ipow<int32_t, BASE_10>(9) returns 10^9 after three turns of the loop
C21_TenToTheNinth ==
  /\ res.op = "ipow" /\ res.pc = "done"
  /\ rep = int32_t /\ rad = 10 /\ x.scale = 9
  /\ res.iterations = 3
  /\ res.out = Pow10(9)

\* C22: in base 10, rescaling to a scale that lies more than the largest
\* exponent of the kernel of Rep below the scale of x gives the coefficient 0
\* whatever the coefficient of x; so x compares to y as zero does, and x + y
\* is y, when y lies that far below x.
C22_RescaleBeyondKernelIsZero ==
  (rad = 10 /\ x.scale - y.scale > kernel_max_exp10(rep)) =>
    /\ res.op = "rescaled"
         => res.out.value = Zero /\ res.out.scale = y.scale
    /\ res.op = "compare"
         => /\ res.eq = IsZero(y.value)
            /\ res.ne = ~IsZero(y.value)
            /\ res.lt = Lt(Zero, y.value)
            /\ res.le = Le(Zero, y.value)
            /\ res.gt = Gt(Zero, y.value)
            /\ res.ge = Ge(Zero, y.value)
    /\ res.op = "plus"
         => res.out.value = y.value /\ res.out.scale = y.scale

\* the 32-bit 15 * 10^9 compares equal to 0 * 10^-1, ten scales below it
C22_NonzeroEqualsZero ==
  /\ res.op = "compare"
  /\ rep = int32_t /\ rad = 10
  /\ x = scaled_integer(Num(15), 9)
  /\ y = scaled_integer(Zero, -1)
  /\ res.eq

\* the operation e, on operands of type T, has a result, and the result is a
\* value of T
EvaluationDefined(T, e) ==
  /\ InRange(T, e.left) /\ InRange(T, e.right)
  /\ e.operator = "-" => InRange(T, Sub(e.left, e.right))
  /\ e.operator = "+" => InRange(T, Add(e.left, e.right))
  /\ e.operator = "/" => /\ ~IsZero(e.right)
                         /\ ~(e.left = numeric_limits_min(T) /\ e.right = Num(-1))
                         /\ InRange(T, TruncDiv(e.left, e.right))

\* C23: with T = Rep, no operation that addition_overflow,
\* subtraction_overflow, multiplication_overflow or division_overflow
\* evaluates overflows or divides by zero: MAX - rhs, MIN - rhs, MIN + rhs,
\* MAX + rhs, MAX / rhs and MIN / rhs lie within the range of Rep on the
\* branch that evaluates them; a difference or a sum is evaluated by the
\* first two, quotients by the third for rhs other than 0 and -1, and
\* nothing by the fourth.
C23_PredicatesEvaluateInRange ==
  res.op \in {"addition_overflow", "subtraction_overflow",
              "multiplication_overflow", "division_overflow"} =>
    /\ \A e \in res.evaluated : EvaluationDefined(rep, e)
    /\ res.op = "addition_overflow"
         => \E e \in res.evaluated : e.operator = "-" /\ e.right = y.value
    /\ res.op = "subtraction_overflow"
         => \E e \in res.evaluated : e.operator = "+" /\ e.right = y.value
    /\ res.op = "multiplication_overflow"
         => /\ \A e \in res.evaluated : e.operator = "/" /\ e.right = y.value
            /\ (res.evaluated = {}) = (y.value \in {Zero, Num(-1)})
    /\ res.op = "division_overflow" => res.evaluated = {}

\* addition_overflow with rhs = MIN evaluates MIN - MIN, which is 0
C23_MinMinusMin ==
  /\ res.op = "addition_overflow"
  /\ y.value = numeric_limits_min(rep)
  /\ res.evaluated = {[operator |-> "-", left |-> numeric_limits_min(rep),
                       right |-> numeric_limits_min(rep)]}
  /\ \A e \in res.evaluated : Sub(e.left, e.right) = Zero

\* q is the greatest integer with q * 2^s <= v
IsFloorOfShift(q, v, s) ==
  /\ Le(Mul(q, Pow2(s)), v)
  /\ Lt(v, Mul(Add(q, One), Pow2(s)))

\* out is v shifted by s in base 2: the floor of v / 2^s for s > 0, v for
\* s = 0, and v * 2^(-s) for s < 0 (as Rep holds it; the product itself
\* when Rep can hold it)
IsBase2Shift(out, v, s) ==
  IF s > 0 THEN IsFloorOfShift(out, v, s)
  ELSE /\ out = Convert(rep, Mul(v, Pow2(-s)))
       /\ InRange(rep, Mul(v, Pow2(-s))) => out = Mul(v, Pow2(-s))

\* C24: in base 2 a shift by s > 0 is an arithmetic right shift: the
\* constructor at a positive scale and a rescale to a coarser scale store
\* floor(value / 2^s), toward minus infinity for a negative coefficient too,
\* and a shift by s < 0 multiplies by 2^(-s); so a coarser rescale of x
\* represents a value that is x or less, whatever the sign of x.
C24_Base2ShiftFloors ==
  rad = 2 =>
    /\ res.op = "construct"
         => /\ IsBase2Shift(res.out.value, x.value, x.scale)
            /\ res.out.scale = x.scale
    /\ res.op = "rescaled"
         => /\ IsBase2Shift(res.out.value, x.value, y.scale - x.scale)
            /\ res.out.scale = y.scale
            /\ y.scale > x.scale => CmpRepresented(res.out, this_lhs) <= 0

\* -7 at scale 0 rescaled to scale 1 in base 2 is -4 * 2, below -7
C24_MinusSevenHalved ==
  /\ res.op = "rescaled"
  /\ rad = 2
  /\ x = scaled_integer(Num(-7), 0)
  /\ y.scale = 1
  /\ res.out.value = Num(-4)
  /\ CmpRepresented(res.out, this_lhs) = -1
====
